---- MODULE Spec2Model ----
(***************************************************************************)
(* Model of the "Load Image FAF" node (load_imageFAF.py): resolution of a  *)
(* (root, unit, texture) request to a .dds file on disk or inside the      *)
(* units.scd archive, staging of the archive entry in a temporary          *)
(* directory, and the ordered decoder chain.                               *)
(*                                                                         *)
(* Python strings are sequences of one-character strings, so that          *)
(* endswith / removesuffix / concatenation are computed as the code        *)
(* computes them.                                                          *)
(***************************************************************************)
EXTENDS Integers, Sequences, FiniteSets, TLC

(***************************************************************************)
(* Bounds                                                                  *)
(***************************************************************************)
NumCalls == 2
MaxRounds == 2
MaxTrail == 2
MaxDirs == 2

Calls == 1..NumCalls

(***************************************************************************)
(* Strings                                                                 *)
(***************************************************************************)
Sep == <<"\\">>
Slash == <<"/">>
Underscore == <<"_">>
ScdName == <<"u", "n", "i", "t", "s", ".", "s", "c", "d">>
UnitsDir == <<"u", "n", "i", "t", "s">>
DdsExt == <<".", "d", "d", "s">>
PngExt == <<".", "p", "n", "g">>
JpgExt == <<".", "j", "p", "g">>
JpegExt == <<".", "j", "p", "e", "g">>

EndsWith(s, suf) ==
    /\ Len(s) >= Len(suf)
    /\ SubSeq(s, Len(s) - Len(suf) + 1, Len(s)) = suf

Removesuffix(s, suf) ==
    IF suf # <<>> /\ EndsWith(s, suf)
    THEN SubSeq(s, 1, Len(s) - Len(suf))
    ELSE s

UpperChars == <<"A", "B", "C", "D", "E", "L", "S", "T", "U", "X">>
LowerChars == <<"a", "b", "c", "d", "e", "l", "s", "t", "u", "x">>

Lower(ch) ==
    IF \E i \in 1..Len(UpperChars) : UpperChars[i] = ch
    THEN LowerChars[CHOOSE i \in 1..Len(UpperChars) : UpperChars[i] = ch]
    ELSE ch

LowerStr(s) == [i \in 1..Len(s) |-> Lower(s[i])]

(***************************************************************************)
(* The texture kinds                                                       *)
(***************************************************************************)
TEXTURE == {"Albedo", "SpecTeam", "normalsTS"}

\* texture.value of the enumeration member instead of texture.name
TextureName_Value(t) ==
    CASE t = "Albedo" -> <<"A", "l", "b", "e", "d", "o">>
      [] t = "SpecTeam" -> <<"S", "p", "e", "c", "T", "e", "a", "m">>
      [] t = "normalsTS" -> <<"n", "o", "r", "m", "a", "l", "s">>

\* texture.name of the enumeration member
TextureName(t) ==
    CASE t = "Albedo" -> <<"A", "l", "b", "e", "d", "o">>
      [] t = "SpecTeam" -> <<"S", "p", "e", "c", "T", "e", "a", "m">>
      [] t = "normalsTS" -> <<"n", "o", "r", "m", "a", "l", "s", "T", "S">>

TEX_LABEL(t) ==
    CASE t = "Albedo" -> <<"A", "l", "b", "e", "d", "o">>
      [] t = "SpecTeam" -> <<"S", "p", "e", "c", "T", "e", "a", "m">>
      [] t = "normalsTS" -> <<"n", "o", "r", "m", "a", "l", "s", "T", "S">>

(***************************************************************************)
(* State                                                                   *)
(***************************************************************************)
VARIABLES
    \* environment of the process, fixed during a run
    isWindows,        \* platform.system() = "Windows"
    opencv_formats,   \* get_opencv_formats()
    pil_formats,      \* get_pil_formats()
    decodableBy,      \* tools able to handle the bytes of the texture
    cvDecode,         \* what cv2.imdecode and cv2.imread give for the texture
    channels,         \* number of channels of the texture
    zipOk,            \* ZipFile(path) can be opened
    zipEntries,       \* names of the members of the archive
    \* file system
    dirs,             \* existing temporary directories
    staged,           \* temporary directories holding an extracted member
    pngs,             \* calls whose converted PNG exists
    \* one load_image_node call per caller
    request,          \* (_path, unit, texture, target) or NoRequest
    pc,
    path,
    compressed,
    tempdir,
    entry,            \* member name handed to z.extract
    idx,              \* position of the for loop in _decoders
    img,
    error,
    trace,            \* decoders invoked so far, with what each gave
    pending,          \* result of _read_cv(png) held while finally runs
    pngRemoved,       \* os.remove calls made by the call
    created,          \* mkdtemp calls made by the call
    removals,         \* rmtree calls made by the call
    outcome,          \* what the caller observes
    prev,             \* what the caller observed from its previous call
    round             \* number of the call the caller is making

env == <<isWindows, opencv_formats, pil_formats, decodableBy, cvDecode, channels,
        zipOk, zipEntries>>
fs == <<dirs, staged>>
dds == <<pngs, pending, pngRemoved>>
locals == <<path, compressed, tempdir, entry, idx, img, error, trace>>
counters == <<created, removals>>
history == <<prev, round>>
vars == <<env, fs, dds, request, pc, locals, counters, outcome, history>>

NoRequest == [root |-> <<>>, unit |-> <<>>, texture |-> "none", target |-> <<>>]
None == [tag |-> "None"]
Raster(lib, file, c, order) ==
    [tag |-> "raster", lib |-> lib, file |-> file, c |-> c, order |-> order]
Raise(type, file) == [tag |-> "raise", type |-> type, file |-> file]
Unset == <<>>

(***************************************************************************)
(* get_ext: os.path.splitext(path)[1].lower()                              *)
(***************************************************************************)
LastIndex(s, chars) ==
    LET hits == {i \in 1..Len(s) : s[i] \in chars}
    IN IF hits = {} THEN 0 ELSE CHOOSE i \in hits : \A j \in hits : j <= i

PathSeps == IF isWindows THEN {"\\", "/"} ELSE {"/"}

get_ext(p) ==
    LET sepIdx == LastIndex(p, PathSeps)
        dotIdx == LastIndex(p, {"."})
    IN IF dotIdx > sepIdx /\ \E i \in (sepIdx + 1)..(dotIdx - 1) : p[i] # "."
       THEN LowerStr(SubSeq(p, dotIdx, Len(p)))
       ELSE <<>>

(***************************************************************************)
(* The decoders.  readable: the file at the path can be read.  A decoder   *)
(* gives its result and the library calls it made.                         *)
(***************************************************************************)
TempPrefix == <<"c", "h", "a", "i", "N", "N", "e", "r", "S", "C", "D", "-">>

\* the bytes behind a path: every staged copy of a member has the same bytes
ContentOf(p) ==
    IF Len(p) > Len(TempPrefix) /\ SubSeq(p, 1, Len(TempPrefix)) = TempPrefix
    THEN SubSeq(p, Len(TempPrefix) + 2, Len(p))
    ELSE p

\* channel order of cv2 with IMREAD_UNCHANGED, of np.array(Image.open(..))
CvOrder(n) == CASE n = 1 -> "GRAY" [] n = 3 -> "BGR" [] n = 4 -> "BGRA"
PilMode(n) == CASE n = 1 -> "L" [] n = 3 -> "RGB" [] n = 4 -> "RGBA"

\* cv2.cvtColor with COLOR_RGB2BGR / COLOR_RGBA2BGRA: swaps channels 0 and 2
cvtColor(order) ==
    CASE order = "RGB" -> "BGR"
      [] order = "BGR" -> "RGB"
      [] order = "RGBA" -> "BGRA"
      [] order = "BGRA" -> "RGBA"
      [] OTHER -> order

\* buf, byPath: "img", "none" or "raise", what imdecode and imread do
\* no path-based attempt after the buffer decode raised
read_cv_NoRetryAfterRaise(p, buf, byPath) ==
    IF get_ext(p) \notin opencv_formats
    THEN [res |-> None, calls |-> <<>>]
    ELSE IF buf = "img"
         THEN [res |-> Raster("cv2.imdecode", ContentOf(p), channels, CvOrder(channels)),
               calls |-> <<"imdecode">>]
         ELSE IF buf = "raise"
              THEN [res |-> Raise("RuntimeError", p), calls |-> <<"imdecode">>]
              ELSE IF byPath = "img"
                   THEN [res |-> Raster("cv2.imread", ContentOf(p), channels,
                                        CvOrder(channels)),
                         calls |-> <<"imdecode", "imread">>]
                   ELSE [res |-> Raise("RuntimeError", p),
                         calls |-> <<"imdecode", "imread">>]

read_cv(p, buf, byPath) ==
    IF get_ext(p) \notin opencv_formats
    THEN [res |-> None, calls |-> <<>>]
    ELSE IF buf = "img"
         THEN [res |-> Raster("cv2.imdecode", ContentOf(p), channels, CvOrder(channels)),
               calls |-> <<"imdecode">>]
         ELSE IF byPath = "img"
              THEN [res |-> Raster("cv2.imread", ContentOf(p), channels, CvOrder(channels)),
                    calls |-> <<"imdecode", "imread">>]
              ELSE [res |-> Raise("RuntimeError", p),
                    calls |-> <<"imdecode", "imread">>]

\* a missing file: np.fromfile raises, cv2.imread returns None
CvBuf(readable) == IF readable THEN cvDecode[1] ELSE "raise"
CvByPath(readable) == IF readable THEN cvDecode[2] ELSE "none"

\* np.array(im) returned as it is, without cvtColor
read_pil_NoReorder(p, readable) ==
    IF get_ext(p) \notin pil_formats
    THEN [res |-> None, calls |-> <<>>]
    ELSE IF readable /\ "pil" \in decodableBy
         THEN [res |-> Raster("PIL", ContentOf(p), channels, PilMode(channels)),
               calls |-> <<"Image.open">>]
         ELSE [res |-> Raise("PILError", p), calls |-> <<"Image.open">>]

read_pil(p, readable) ==
    IF get_ext(p) \notin pil_formats
    THEN [res |-> None, calls |-> <<>>]
    ELSE IF readable /\ "pil" \in decodableBy
         THEN [res |-> Raster("PIL", ContentOf(p), channels,
                              IF channels \in {3, 4}
                              THEN cvtColor(PilMode(channels))
                              ELSE PilMode(channels)),
               calls |-> <<"Image.open">>]
         ELSE [res |-> Raise("PILError", p), calls |-> <<"Image.open">>]

PngOf(p) == Removesuffix(p, DdsExt) \o PngExt

\* _read_cv(png): the PNG written by texconv is there until os.remove
dds_inner(p, pngThere) ==
    read_cv(PngOf(p),
            IF ~pngThere THEN "raise" ELSE IF "png" \in decodableBy THEN "img" ELSE "none",
            IF pngThere /\ "png" \in decodableBy THEN "img" ELSE "none")

\* _read_dds gets as far as dds_to_png_texconv returning a PNG
DdsConverts(p, readable) ==
    /\ get_ext(p) = DdsExt
    /\ isWindows
    /\ readable /\ "texconv" \in decodableBy

WithDdsCalls(r) ==
    [res |-> r.res, calls |-> <<"dds_to_png_texconv">> \o r.calls \o <<"os.remove">>]

\* the platform test raising instead of returning None
read_dds_RaiseOffWindows(p, readable) ==
    IF get_ext(p) # DdsExt
    THEN [res |-> None, calls |-> <<>>]
    ELSE IF ~isWindows
         THEN [res |-> Raise("OSError", p), calls |-> <<>>]
         ELSE IF ~(readable /\ "texconv" \in decodableBy)
              THEN [res |-> Raise("TexconvError", p), calls |-> <<"dds_to_png_texconv">>]
              ELSE WithDdsCalls(dds_inner(p, TRUE))

read_dds(p, readable) ==
    IF get_ext(p) # DdsExt
    THEN [res |-> None, calls |-> <<>>]
    ELSE IF ~isWindows
         THEN [res |-> None, calls |-> <<>>]
         ELSE IF ~(readable /\ "texconv" \in decodableBy)
              THEN [res |-> Raise("TexconvError", p), calls |-> <<"dds_to_png_texconv">>]
              ELSE WithDdsCalls(dds_inner(p, TRUE))

\* the wrapped decoder called whatever the extension
for_ext_Always(exts, p, r) == r

for_ext(exts, p, r) == IF get_ext(p) \in exts THEN r ELSE [res |-> None, calls |-> <<>>]

DecoderNames == <<"pil-jpeg", "cv", "texconv-dds", "pil">>

\* the list with cv ahead of pil-jpeg
decoders_CvFirst(i, p, readable) ==
    CASE i = 1 -> read_cv(p, CvBuf(readable), CvByPath(readable))
      [] i = 2 -> for_ext({JpgExt, JpegExt}, p, read_pil(p, readable))
      [] i = 3 -> read_dds(p, readable)
      [] i = 4 -> read_pil(p, readable)

decoders(i, p, readable) ==
    CASE i = 1 -> for_ext({JpgExt, JpegExt}, p, read_pil(p, readable))
      [] i = 2 -> read_cv(p, CvBuf(readable), CvByPath(readable))
      [] i = 3 -> read_dds(p, readable)
      [] i = 4 -> read_pil(p, readable)

(***************************************************************************)
(* Inputs and environments explored                                        *)
(***************************************************************************)
Seps(k) == [i \in 1..k |-> "\\"]

DirectBase == <<"C", ":", "\\", "t", "e", "x">>
ArchiveBase == <<"C", ":", "\\">> \o ScdName
Bases == {DirectBase, ArchiveBase}
Roots == {b \o Seps(k) : b \in Bases, k \in 0..MaxTrail}
Units == {<<"U", "E", "B">>, <<"X", "S", "L">>}
Targets == {<<>>, <<"C", ":", "\\", "o">>}

\* every unit and target with the plain roots, every root with one of them
Requests ==
    [root : Bases, unit : Units, texture : TEXTURE, target : Targets]
        \cup [root : Roots, unit : {<<"U", "E", "B">>}, texture : TEXTURE,
              target : {<<>>}]
ConcRequests ==
    [root : Bases, unit : {<<"U", "E", "B">>}, texture : {"Albedo"}, target : {<<>>}]

\* the layout of units.scd: units/<unit>/<unit>_<label>.dds
ArchiveMember(u, t) ==
    UnitsDir \o Slash \o u \o Slash \o u \o Underscore \o TEX_LABEL(t) \o DdsExt
ArchiveOf(us) == {ArchiveMember(u, t) : u \in us, t \in TEXTURE}

Libs == {"texconv", "png", "pil"}
CvResults == {"img", "none", "raise"}
ChannelCounts == {1, 3, 4}
OpencvFormatSets == {{PngExt, JpgExt}, {PngExt, JpgExt, DdsExt}}
ChainOpencvFormatSets == OpencvFormatSets \cup {{JpgExt}}
\* a PNG is read only after texconv wrote it
FileTools == {t \in SUBSET Libs : "png" \in t => "texconv" \in t}
CvPairs == CvResults \X CvResults
LoadCvPairs == {<<"img", "img">>, <<"none", "img">>, <<"raise", "none">>}
ChainRequest ==
    [root |-> DirectBase, unit |-> <<"U", "E", "B">>, texture |-> "Albedo",
     target |-> <<>>]
ChainPaths ==
    {<<"a">> \o e : e \in {JpgExt, JpegExt, PngExt, DdsExt, <<".", "t", "x", "t">>}}
        \cup {<<"a", ".", "J", "P", "G">>}
PilFormatSets == {{PngExt, JpgExt, JpegExt}, {PngExt, JpgExt, JpegExt, DdsExt}}

Digits == <<"1", "2", "3", "4", "5", "6", "7", "8", "9">>
TempDirNames == {TempPrefix \o <<Digits[n]>> : n \in 1..MaxDirs}

(***************************************************************************)
(* load_image_node                                                         *)
(***************************************************************************)
Done(c) == pc[c] \in {"returned", "raised"}

Filename(r) == r.unit \o Underscore \o TextureName(r.texture)

IsArchive(p) == EndsWith(p, ScdName)

\* the root joined as it is, without removesuffix
DirectPath_NoStrip(r) ==
    r.root \o Sep \o r.unit \o Sep \o Filename(r) \o DdsExt

DirectPath(r) ==
    Removesuffix(r.root, Sep) \o Sep \o r.unit \o Sep \o Filename(r) \o DdsExt

\* the member name built with the separator of the working path
EntryName_Backslash(r) == UnitsDir \o Sep \o r.unit \o Sep \o Filename(r) \o DdsExt

EntryName(r) == UnitsDir \o Slash \o r.unit \o Slash \o Filename(r) \o DdsExt

StagedPath(td, r) ==
    td \o Sep \o UnitsDir \o Sep \o r.unit \o Sep \o Filename(r) \o DdsExt

\* one fixed directory name for every call
mkdtemp_Fixed == {TempPrefix \o <<Digits[1]>>}

\* mkdtemp never returns the name of an existing directory
mkdtemp == TempDirNames \ dirs

\* z.extract writes <tempdir>/units/<unit>/<file>; the working path joins the
\* same segments with backslashes, which names that file on Windows only
Readable(c) ==
    IF compressed[c]
    THEN isWindows /\ tempdir[c] \in dirs /\ tempdir[c] \in staged
    ELSE TRUE

\* the temporary directory made before the archive test
Enter_AlwaysTemp(c) ==
    /\ pc[c] = "idle"
    /\ request[c] # NoRequest
    /\ \E d \in mkdtemp :
          /\ tempdir' = [tempdir EXCEPT ![c] = d]
          /\ dirs' = dirs \cup {d}
    /\ created' = [created EXCEPT ![c] = @ + 1]
    /\ IF IsArchive(request[c].root)
       THEN /\ compressed' = [compressed EXCEPT ![c] = TRUE]
            /\ path' = [path EXCEPT ![c] = request[c].root]
            /\ pc' = [pc EXCEPT ![c] = "extract"]
       ELSE /\ compressed' = [compressed EXCEPT ![c] = FALSE]
            /\ path' = [path EXCEPT ![c] = DirectPath(request[c])]
            /\ pc' = [pc EXCEPT ![c] = "decode"]
    /\ UNCHANGED <<env, history, staged, dds, request, entry, idx, img, error, trace,
                   removals, outcome>>

\* lines 177-183, 191-200
Enter(c) ==
    /\ pc[c] = "idle"
    /\ request[c] # NoRequest
    /\ IF IsArchive(request[c].root)
       THEN /\ compressed' = [compressed EXCEPT ![c] = TRUE]
            /\ path' = [path EXCEPT ![c] = request[c].root]
            /\ pc' = [pc EXCEPT ![c] = "mkdtemp"]
       ELSE /\ compressed' = [compressed EXCEPT ![c] = FALSE]
            /\ path' = [path EXCEPT ![c] = DirectPath(request[c])]
            /\ pc' = [pc EXCEPT ![c] = "decode"]
    /\ UNCHANGED <<env, history, fs, dds, request, tempdir, entry, idx, img, error, trace,
                   counters, outcome>>

\* line 184
Mkdtemp(c) ==
    /\ pc[c] = "mkdtemp"
    /\ \E d \in mkdtemp :
          /\ tempdir' = [tempdir EXCEPT ![c] = d]
          /\ dirs' = dirs \cup {d}
    /\ created' = [created EXCEPT ![c] = @ + 1]
    /\ pc' = [pc EXCEPT ![c] = "extract"]
    /\ UNCHANGED <<env, history, staged, dds, request, path, compressed, entry, idx, img,
                   error, trace, removals, outcome>>

\* the archive member moved out of the archive instead of copied
Extract_Consumes(c) ==
    /\ pc[c] = "extract"
    /\ IF ~zipOk
       THEN /\ outcome' = [outcome EXCEPT ![c] = Raise("BadZipFile", path[c])]
            /\ pc' = [pc EXCEPT ![c] = "raised"]
            /\ UNCHANGED <<staged, path, entry, zipEntries>>
       ELSE /\ entry' = [entry EXCEPT ![c] = EntryName(request[c])]
            /\ IF EntryName(request[c]) \notin zipEntries
               THEN /\ outcome' = [outcome EXCEPT ![c] =
                                      Raise("KeyError", EntryName(request[c]))]
                    /\ pc' = [pc EXCEPT ![c] = "raised"]
                    /\ UNCHANGED <<staged, path, zipEntries>>
               ELSE /\ staged' = staged \cup {tempdir[c]}
                    /\ zipEntries' = zipEntries \ {EntryName(request[c])}
                    /\ path' = [path EXCEPT ![c] = StagedPath(tempdir[c], request[c])]
                    /\ pc' = [pc EXCEPT ![c] = "decode"]
                    /\ UNCHANGED outcome
    /\ UNCHANGED <<isWindows, opencv_formats, pil_formats, decodableBy, cvDecode,
                   channels, zipOk, history, dirs, dds, request, compressed,
                   tempdir, idx, img, error, trace, counters>>

\* lines 186-188
Extract(c) ==
    /\ pc[c] = "extract"
    /\ IF ~zipOk
       THEN /\ outcome' = [outcome EXCEPT ![c] = Raise("BadZipFile", path[c])]
            /\ pc' = [pc EXCEPT ![c] = "raised"]
            /\ UNCHANGED <<staged, path, entry>>
       ELSE /\ entry' = [entry EXCEPT ![c] = EntryName(request[c])]
            /\ IF EntryName(request[c]) \notin zipEntries
               THEN /\ outcome' = [outcome EXCEPT ![c] =
                                      Raise("KeyError", EntryName(request[c]))]
                    /\ pc' = [pc EXCEPT ![c] = "raised"]
                    /\ UNCHANGED <<staged, path>>
               ELSE /\ staged' = staged \cup {tempdir[c]}
                    /\ path' = [path EXCEPT ![c] = StagedPath(tempdir[c], request[c])]
                    /\ pc' = [pc EXCEPT ![c] = "decode"]
                    /\ UNCHANGED outcome
    /\ UNCHANGED <<env, history, dirs, dds, request, compressed, tempdir, idx, img, error,
                   trace, counters>>

\* the loop without its break: img is overwritten by every later decoder
Advance_NoBreak(c, r) ==
    LET newImg == IF r.res.tag = "raise" THEN img[c] ELSE r.res
    IN /\ img' = [img EXCEPT ![c] = newImg]
       /\ error' = [error EXCEPT ![c] = IF r.res.tag = "raise" THEN r.res ELSE @]
       /\ trace' = [trace EXCEPT ![c] =
                       Append(@, [name |-> DecoderNames[idx[c]],
                                  res |-> r.res, calls |-> r.calls])]
       /\ IF idx[c] = Len(DecoderNames)
          THEN /\ pc' = [pc EXCEPT ![c] = "release"]
               /\ UNCHANGED idx
          ELSE /\ idx' = [idx EXCEPT ![c] = @ + 1]
               /\ pc' = [pc EXCEPT ![c] = "decode"]

\* the loop keeping the first error instead of the most recent one
Advance_FirstError(c, r) ==
    LET newImg == IF r.res.tag = "raster" THEN r.res ELSE img[c]
    IN /\ img' = [img EXCEPT ![c] = newImg]
       /\ error' = [error EXCEPT ![c] =
                       IF r.res.tag = "raise" /\ @ = None THEN r.res ELSE @]
       /\ trace' = [trace EXCEPT ![c] =
                       Append(@, [name |-> DecoderNames[idx[c]],
                                  res |-> r.res, calls |-> r.calls])]
       /\ IF newImg # None \/ idx[c] = Len(DecoderNames)
          THEN /\ pc' = [pc EXCEPT ![c] = "release"]
               /\ UNCHANGED idx
          ELSE /\ idx' = [idx EXCEPT ![c] = @ + 1]
               /\ pc' = [pc EXCEPT ![c] = "decode"]

\* lines 202-209: what the loop does with the outcome r of decoder(path)
Advance(c, r) ==
    LET newImg == IF r.res.tag = "raster" THEN r.res ELSE img[c]
    IN /\ img' = [img EXCEPT ![c] = newImg]
       /\ error' = [error EXCEPT ![c] = IF r.res.tag = "raise" THEN r.res ELSE @]
       /\ trace' = [trace EXCEPT ![c] =
                       Append(@, [name |-> DecoderNames[idx[c]],
                                  res |-> r.res, calls |-> r.calls])]
       /\ IF newImg # None \/ idx[c] = Len(DecoderNames)
          THEN /\ pc' = [pc EXCEPT ![c] = "release"]
               /\ UNCHANGED idx
          ELSE /\ idx' = [idx EXCEPT ![c] = @ + 1]
               /\ pc' = [pc EXCEPT ![c] = "decode"]

\* lines 201-209, one iteration of the loop; _read_dds stops at line 94 when
\* the converter has written its PNG
Decode(c) ==
    /\ pc[c] = "decode"
    /\ IF DecoderNames[idx[c]] = "texconv-dds" /\ DdsConverts(path[c], Readable(c))
       THEN /\ pngs' = pngs \cup {c}
            /\ pc' = [pc EXCEPT ![c] = "dds_read"]
            /\ UNCHANGED <<idx, img, error, trace, pending, pngRemoved>>
       ELSE /\ Advance(c, decoders(idx[c], path[c], Readable(c)))
            /\ UNCHANGED dds
    /\ UNCHANGED <<env, history, fs, request, path, compressed, tempdir, entry,
                   counters, outcome>>

\* try/finally of _read_dds without the finally: the PNG removed on return only
DdsRead_NoFinally(c) ==
    /\ pc[c] = "dds_read"
    /\ LET r == dds_inner(path[c], c \in pngs)
       IN IF r.res.tag = "raise"
          THEN /\ Advance(c, [res |-> r.res,
                              calls |-> <<"dds_to_png_texconv">> \o r.calls])
               /\ UNCHANGED dds
          ELSE /\ pending' = [pending EXCEPT ![c] = r]
               /\ pc' = [pc EXCEPT ![c] = "dds_remove"]
               /\ UNCHANGED <<pngs, pngRemoved, idx, img, error, trace>>
    /\ UNCHANGED <<env, history, fs, request, path, compressed, tempdir, entry,
                   counters, outcome>>

\* line 96: _read_cv(png); the result or the exception waits for finally
DdsRead(c) ==
    /\ pc[c] = "dds_read"
    /\ pending' = [pending EXCEPT ![c] = dds_inner(path[c], c \in pngs)]
    /\ pc' = [pc EXCEPT ![c] = "dds_remove"]
    /\ UNCHANGED <<env, history, fs, pngs, pngRemoved, request, path, compressed, tempdir,
                   entry, idx, img, error, trace, counters, outcome>>

\* lines 97-98: os.remove(png), then the result or the exception reaches the loop
DdsRemove(c) ==
    /\ pc[c] = "dds_remove"
    /\ pngs' = pngs \ {c}
    /\ pngRemoved' = [pngRemoved EXCEPT ![c] = @ + 1]
    /\ pending' = [pending EXCEPT ![c] = None]
    /\ Advance(c, WithDdsCalls(pending[c]))
    /\ UNCHANGED <<env, history, fs, request, path, compressed, tempdir, entry,
                   counters, outcome>>

\* rmtree left out
Release_Skip(c) ==
    /\ pc[c] = "release"
    /\ pc' = [pc EXCEPT ![c] = "finish"]
    /\ UNCHANGED <<env, history, fs, dds, request, locals, counters, outcome>>

\* lines 211-213
Release(c) ==
    /\ pc[c] = "release"
    /\ IF compressed[c]
       THEN IF tempdir[c] \in dirs
            THEN /\ dirs' = dirs \ {tempdir[c]}
                 /\ staged' = staged \ {tempdir[c]}
                 /\ removals' = [removals EXCEPT ![c] = @ + 1]
                 /\ pc' = [pc EXCEPT ![c] = "finish"]
                 /\ UNCHANGED outcome
            ELSE /\ outcome' = [outcome EXCEPT ![c] =
                                   Raise("FileNotFoundError", tempdir[c])]
                 /\ pc' = [pc EXCEPT ![c] = "raised"]
                 /\ UNCHANGED <<fs, removals>>
       ELSE /\ pc' = [pc EXCEPT ![c] = "finish"]
            /\ UNCHANGED <<fs, removals, outcome>>
    /\ UNCHANGED <<env, history, dds, request, locals, created>>

\* the epilogue without the img is None test
Finish_NoCheck(c) ==
    /\ pc[c] = "finish"
    /\ outcome' = [outcome EXCEPT ![c] =
                      [tag |-> "return",
                       value |-> <<img[c], request[c].root, request[c].unit,
                                   Filename(request[c]), request[c].target>>]]
    /\ pc' = [pc EXCEPT ![c] = "returned"]
    /\ UNCHANGED <<env, history, fs, dds, request, locals, counters>>

\* lines 215-222
Finish(c) ==
    /\ pc[c] = "finish"
    /\ IF img[c] = None
       THEN /\ outcome' = [outcome EXCEPT ![c] =
                              IF error[c] # None
                              THEN error[c]
                              ELSE Raise("Unreadable", path[c])]
            /\ pc' = [pc EXCEPT ![c] = "raised"]
       ELSE /\ outcome' = [outcome EXCEPT ![c] =
                              [tag |-> "return",
                               value |-> <<img[c], request[c].root, request[c].unit,
                                           Filename(request[c]), request[c].target>>]]
            /\ pc' = [pc EXCEPT ![c] = "returned"]
    /\ UNCHANGED <<env, history, fs, dds, request, locals, counters>>

\* the host runs the node again with the same inputs: a new call, new locals
Recall(c) ==
    /\ Done(c)
    /\ round[c] < MaxRounds
    /\ prev' = [prev EXCEPT ![c] = outcome[c]]
    /\ round' = [round EXCEPT ![c] = @ + 1]
    /\ pc' = [pc EXCEPT ![c] = "idle"]
    /\ path' = [path EXCEPT ![c] = Unset]
    /\ compressed' = [compressed EXCEPT ![c] = FALSE]
    /\ tempdir' = [tempdir EXCEPT ![c] = Unset]
    /\ entry' = [entry EXCEPT ![c] = Unset]
    /\ idx' = [idx EXCEPT ![c] = 1]
    /\ img' = [img EXCEPT ![c] = None]
    /\ error' = [error EXCEPT ![c] = None]
    /\ trace' = [trace EXCEPT ![c] = <<>>]
    /\ created' = [created EXCEPT ![c] = 0]
    /\ removals' = [removals EXCEPT ![c] = 0]
    /\ pngRemoved' = [pngRemoved EXCEPT ![c] = 0]
    /\ outcome' = [outcome EXCEPT ![c] = None]
    /\ UNCHANGED <<env, fs, pngs, pending, request>>

(***************************************************************************)
(* Specifications                                                          *)
(***************************************************************************)
InitState ==
    /\ dirs = {}
    /\ staged = {}
    /\ compressed = [c \in Calls |-> FALSE]
    /\ tempdir = [c \in Calls |-> Unset]
    /\ entry = [c \in Calls |-> Unset]
    /\ idx = [c \in Calls |-> 1]
    /\ img = [c \in Calls |-> None]
    /\ error = [c \in Calls |-> None]
    /\ trace = [c \in Calls |-> <<>>]
    /\ created = [c \in Calls |-> 0]
    /\ removals = [c \in Calls |-> 0]
    /\ outcome = [c \in Calls |-> None]
    /\ pngs = {}
    /\ pending = [c \in Calls |-> None]
    /\ pngRemoved = [c \in Calls |-> 0]
    /\ prev = [c \in Calls |-> None]
    /\ round = [c \in Calls |-> 1]

InitCalls ==
    /\ InitState
    /\ pc = [c \in Calls |-> "idle"]
    /\ path = [c \in Calls |-> Unset]

\* one caller, every request and environment
Init ==
    /\ isWindows \in BOOLEAN
    /\ opencv_formats \in OpencvFormatSets
    /\ pil_formats \in PilFormatSets
    /\ decodableBy \in FileTools
    /\ cvDecode \in LoadCvPairs
    /\ channels \in ChannelCounts
    /\ zipOk \in BOOLEAN
    /\ zipEntries \in IF zipOk
                      THEN {ArchiveOf(us) : us \in SUBSET {<<"U", "E", "B">>}}
                      ELSE {ArchiveOf({})}
    /\ request \in {[c \in Calls |-> IF c = 1 THEN r ELSE NoRequest] : r \in Requests}
    /\ InitCalls

\* independent callers running at the same time
InitConc ==
    /\ isWindows = TRUE
    /\ opencv_formats = {PngExt, JpgExt}
    /\ pil_formats = {PngExt, JpgExt, JpegExt, DdsExt}
    /\ decodableBy \in {{}, {"texconv", "png"}}
    /\ cvDecode = <<"img", "img">>
    /\ channels = 4
    /\ zipOk \in BOOLEAN
    /\ zipEntries \in {ArchiveOf(us) : us \in SUBSET {<<"U", "E", "B">>}}
    /\ request \in [Calls -> ConcRequests]
    /\ InitCalls

\* one caller making the same call again
InitRepeat ==
    /\ isWindows \in BOOLEAN
    /\ opencv_formats \in OpencvFormatSets
    /\ pil_formats \in PilFormatSets
    /\ decodableBy \in FileTools
    /\ cvDecode \in LoadCvPairs
    /\ channels = 4
    /\ zipOk \in BOOLEAN
    /\ zipEntries \in IF zipOk
                      THEN {ArchiveOf(us) : us \in SUBSET {<<"U", "E", "B">>}}
                      ELSE {ArchiveOf({})}
    /\ request \in {[c \in Calls |-> IF c = 1 THEN r ELSE NoRequest] : r \in ConcRequests}
    /\ InitCalls

\* the decoder chain of lines 199-222 on a path of any extension
InitChain ==
    /\ isWindows \in BOOLEAN
    /\ opencv_formats \in ChainOpencvFormatSets
    /\ pil_formats \in PilFormatSets
    /\ decodableBy \in FileTools
    /\ cvDecode \in CvPairs
    /\ channels \in ChannelCounts
    /\ zipOk = FALSE
    /\ zipEntries = {}
    /\ request = [c \in Calls |-> IF c = 1 THEN ChainRequest ELSE NoRequest]
    /\ InitState
    /\ pc = [c \in Calls |-> IF c = 1 THEN "decode" ELSE "idle"]
    /\ path \in {[c \in Calls |-> IF c = 1 THEN p ELSE Unset] : p \in ChainPaths}

Next ==
    \E c \in Calls :
        \/ Enter(c)
        \/ Mkdtemp(c)
        \/ Extract(c)
        \/ Decode(c)
        \/ DdsRead(c)
        \/ DdsRemove(c)
        \/ Release(c)
        \/ Finish(c)

NextRepeat ==
    \/ Next
    \/ \E c \in Calls : Recall(c)

NextChain ==
    \E c \in Calls :
        \/ Decode(c)
        \/ DdsRead(c)
        \/ DdsRemove(c)
        \/ Release(c)
        \/ Finish(c)

Spec == Init /\ [][Next]_vars
SpecConc == InitConc /\ [][Next]_vars
SpecRepeat == InitRepeat /\ [][NextRepeat]_vars
SpecChain == InitChain /\ [][NextChain]_vars

(***************************************************************************)
(* Properties                                                              *)
(***************************************************************************)
ArchiveRoot(r) == EndsWith(r.root, ScdName)
FixedOrder == <<"pil-jpeg", "cv", "texconv-dds", "pil">>
Failures(tr) == {i \in 1..Len(tr) : tr[i].res.tag = "raise"}
Successes(tr) == {i \in 1..Len(tr) : tr[i].res.tag = "raster"}
Last(S) == CHOOSE i \in S : \A j \in S : j <= i
ChainRan(c) == trace[c] # <<>>

\* C1: whatever the outcome of an archive-mode call (raster returned, decoders
\* failed, archive cannot be opened, entry missing), the temporary directory
\* it created no longer exists when the call ends, and it was removed exactly
\* once.
C1_TempDirGoneOnEveryExit ==
    \A c \in Calls :
        (Done(c) /\ ArchiveRoot(request[c]))
            => (tempdir[c] \notin dirs /\ removals[c] = 1)

\* C2: when the requested entry is absent from the archive, the call raises
\* and the directory made by mkdtemp is removed before the error propagates.
C2_MissingEntryLeavesNoTempDir ==
    \A c \in Calls :
        (Done(c) /\ ArchiveRoot(request[c]) /\ zipOk
           /\ ArchiveMember(request[c].unit, request[c].texture) \notin zipEntries)
            => (pc[c] = "raised" /\ dirs = {})

\* C3: the decoders are invoked in the order pil-jpeg, cv, texconv-dds, pil;
\* the loop stops at the first raster, that raster is the one returned, and no
\* later decoder is invoked, also after an earlier decoder failed.
C3_FirstSuccessWins ==
    \A c \in Calls :
        /\ Len(trace[c]) <= Len(FixedOrder)
        /\ \A i \in 1..Len(trace[c]) : trace[c][i].name = FixedOrder[i]
        /\ \A i \in Successes(trace[c]) : i = Len(trace[c])
        /\ (pc[c] = "decode") => (Successes(trace[c]) = {})
        /\ (Done(c) /\ Successes(trace[c]) # {})
              => /\ pc[c] = "returned"
                 /\ outcome[c].value[1] = trace[c][Len(trace[c])].res

C3_Witness ==
    \E c \in Calls :
        /\ pc[c] = "returned"
        /\ Len(trace[c]) = 3
        /\ trace[c][2].res.tag = "raise"
        /\ trace[c][3].res.tag = "raster"

\* C4: a failing decoder does not abort the chain; with no raster, the error
\* raised is that of the last decoder that failed, or the generic unreadable
\* error naming the path when none failed; an earlier error is never raised
\* when a later decoder produced a raster.
C4_LastErrorPropagates ==
    \A c \in Calls :
        /\ (pc[c] \in {"release", "finish"} /\ Successes(trace[c]) = {})
              => Len(trace[c]) = Len(FixedOrder)
        /\ (pc[c] = "decode" /\ trace[c] # <<>>) => idx[c] = Len(trace[c]) + 1
        /\ (Done(c) /\ ChainRan(c) /\ Successes(trace[c]) = {})
              => /\ pc[c] = "raised"
                 /\ outcome[c] =
                       IF Failures(trace[c]) # {}
                       THEN trace[c][Last(Failures(trace[c]))].res
                       ELSE Raise("Unreadable", path[c])
        /\ (Done(c) /\ Successes(trace[c]) # {}) => pc[c] = "returned"

C4_Witness ==
    \E c \in Calls :
        /\ pc[c] = "raised"
        /\ Cardinality(Failures(trace[c])) >= 2
        /\ trace[c][2].res # trace[c][4].res
        /\ outcome[c] = trace[c][4].res

\* C5: every call ends in exactly one outcome, a complete 5-tuple with a
\* raster or a single error, never a tuple with a null raster; an extension
\* supported by no decoder gives the unreadable-image error.
NoDecoderApplies ==
    /\ DdsExt \notin opencv_formats
    /\ DdsExt \notin pil_formats
    /\ ~isWindows

C5_ExactlyOneOutcome ==
    \A c \in Calls :
        /\ ~Done(c) => outcome[c] = None
        /\ pc[c] = "returned"
              => /\ outcome[c].tag = "return"
                 /\ Len(outcome[c].value) = 5
                 /\ outcome[c].value[1].tag = "raster"
        /\ pc[c] = "raised" => outcome[c].tag = "raise"
        /\ (Done(c) /\ ChainRan(c) /\ NoDecoderApplies)
              => outcome[c] = Raise("Unreadable", path[c])

C5_Witness ==
    \E c \in Calls :
        /\ pc[c] = "raised"
        /\ NoDecoderApplies
        /\ outcome[c].type = "Unreadable"

\* C6: a temporary directory is created only when the root is an archive: a
\* direct-mode call never creates and never removes one, an archive-mode call
\* creates at most one.
C6_TempDirOnlyInArchiveMode ==
    \A c \in Calls :
        /\ created[c] <= 1
        /\ removals[c] <= created[c]
        /\ ~ArchiveRoot(request[c])
              => (created[c] = 0 /\ removals[c] = 0 /\ tempdir[c] = Unset)
        /\ (~ArchiveRoot(request[c]) /\ \A d \in Calls \ {c} : pc[d] = "idle")
              => dirs = {}

C6_Witness ==
    \E c \in Calls :
        /\ pc[c] = "returned"
        /\ ~ArchiveRoot(request[c])
        /\ created[c] = 0

\* C7: concurrent calls do not interfere: calls holding a temporary directory
\* hold distinct ones, a call removes only the directory it created, and the
\* staged file of a call is there as long as its decoders run.
InLoop(c) == pc[c] \in {"decode", "dds_read", "dds_remove"}
Holding(c) == compressed[c] /\ (InLoop(c) \/ pc[c] \in {"extract", "release"})

C7_NoInterferenceState ==
    /\ \A c, d \in Calls : (c # d /\ Holding(c) /\ Holding(d)) => tempdir[c] # tempdir[d]
    /\ \A c \in Calls : Holding(c) => tempdir[c] \in dirs
    /\ \A c \in Calls : (compressed[c] /\ (InLoop(c) \/ pc[c] = "release"))
                            => tempdir[c] \in staged

C7_RemovesOnlyOwn ==
    \A d \in dirs \ dirs' :
        \E c \in Calls :
            /\ pc[c] = "release"
            /\ pc'[c] = "finish"
            /\ tempdir[c] = d
            /\ \A o \in Calls \ {c} : Holding(o) => tempdir[o] # d

C7_ConcurrentCallsIndependent ==
    [](C7_NoInterferenceState) /\ [][C7_RemovesOnlyOwn]_vars

C7_Witness ==
    \E c, d \in Calls :
        /\ c # d
        /\ compressed[c] /\ pc[c] = "decode" /\ trace[c] # <<>>
        /\ compressed[d] /\ pc[d] = "finish" /\ removals[d] = 1

\* C8 as stated: in direct mode, for a root R followed by any number of
\* trailing backslashes, the working path is R\U\U_suffix.dds.
RECURSIVE StripSeps(_)
StripSeps(s) ==
    IF s # <<>> /\ s[Len(s)] = "\\"
    THEN StripSeps(SubSeq(s, 1, Len(s) - 1))
    ELSE s

TrailingSeps(s) == Len(s) - Len(StripSeps(s))

ExpectedDirect(r) ==
    StripSeps(r.root) \o Sep \o r.unit \o Sep
        \o r.unit \o Underscore \o TEX_LABEL(r.texture) \o DdsExt

C8_AnyTrailingSeparators ==
    \A c \in Calls :
        (pc[c] # "idle" /\ ~compressed[c]) => path[c] = ExpectedDirect(request[c])

\* C8: in direct mode, for a root R not ending with a backslash, followed by
\* zero or one backslash, the working path is R\U\U_suffix.dds.
C8_AtMostOneTrailingSeparator ==
    \A c \in Calls :
        (pc[c] # "idle" /\ ~compressed[c] /\ TrailingSeps(request[c].root) <= 1)
            => path[c] = ExpectedDirect(request[c])

C8_Witness ==
    \E c \in Calls :
        /\ pc[c] = "returned"
        /\ ~compressed[c]
        /\ TrailingSeps(request[c].root) = 1
        /\ request[c].texture = "normalsTS"

\* C9 as stated: a root naming the archive, with or without trailing
\* separators after the archive name, is treated as an archive and the entry
\* units/U/U_suffix.dds is extracted.
C9_ArchiveWithTrailingSeparators ==
    \A c \in Calls :
        (pc[c] # "idle" /\ EndsWith(StripSeps(request[c].root), ScdName))
            => /\ compressed[c]
               /\ entry[c] # Unset
                     => entry[c] = ArchiveMember(request[c].unit, request[c].texture)

\* C9: a root ending with the archive name itself is treated as an archive
\* and the entry units/U/U_suffix.dds is extracted, whatever the root; a root
\* with separators after the archive name is resolved in direct mode.
C9_ArchiveSuffixOnly ==
    \A c \in Calls :
        pc[c] # "idle"
            => /\ EndsWith(request[c].root, ScdName) => compressed[c]
               /\ TrailingSeps(request[c].root) >= 1 => ~compressed[c]
               /\ (compressed[c] /\ zipOk /\ pc[c] \notin {"mkdtemp", "extract"})
                     => entry[c] = ArchiveMember(request[c].unit, request[c].texture)
               /\ entry[c] # Unset
                     => entry[c] = ArchiveMember(request[c].unit, request[c].texture)

C9_Witness ==
    \E c \in Calls :
        /\ pc[c] = "returned"
        /\ compressed[c]
        /\ entry[c] # Unset
        /\ request[c].texture = "normalsTS"

\* C10: on success the call returns (raster, rootPath, unitName,
\* unitName_suffix, targetDir) with rootPath and targetDir exactly the inputs
\* and suffix Albedo, SpecTeam, normalsTS; the same suffix is in the resolved
\* file or entry name and equals the label of the kind in TEX_LABEL.
KindSuffix(t) ==
    CASE t = "Albedo" -> <<"A", "l", "b", "e", "d", "o">>
      [] t = "SpecTeam" -> <<"S", "p", "e", "c", "T", "e", "a", "m">>
      [] t = "normalsTS" -> <<"n", "o", "r", "m", "a", "l", "s", "T", "S">>

C10_ReturnedTuple ==
    \A c \in Calls :
        pc[c] = "returned"
            => LET r == request[c]
                   name == r.unit \o Underscore \o KindSuffix(r.texture)
               IN /\ outcome[c].tag = "return"
                  /\ outcome[c].value = <<img[c], r.root, r.unit, name, r.target>>
                  /\ img[c].tag = "raster"
                  /\ EndsWith(path[c], Sep \o name \o DdsExt)
                  /\ compressed[c] => EndsWith(entry[c], Slash \o name \o DdsExt)
                  /\ KindSuffix(r.texture) = TEX_LABEL(r.texture)

C10_Witness ==
    \E c \in Calls :
        /\ pc[c] = "returned"
        /\ compressed[c]
        /\ request[c].texture = "normalsTS"
        /\ request[c].target # <<>>
        /\ outcome[c].value[2] # path[c]

\* C11: every decoder keeps not-applicable and failed apart: None without
\* raising for an extension it does not support, an error and never None for
\* an extension it supports (_read_cv, _read_pil, pil-jpeg, _read_dds, also
\* when the inner _read_cv on the converted PNG returns None).
Supports(name, ext) ==
    CASE name = "pil-jpeg" -> ext \in {JpgExt, JpegExt} /\ ext \in pil_formats
      [] name = "cv" -> ext \in opencv_formats
      [] name = "texconv-dds" -> ext = DdsExt /\ isWindows
      [] name = "pil" -> ext \in pil_formats

C11_NotApplicableApartFromFailed ==
    \A c \in Calls :
        \A i \in 1..Len(trace[c]) :
            LET e == trace[c][i]
            IN IF Supports(e.name, get_ext(path[c]))
               THEN e.res.tag \in {"raster", "raise"}
               ELSE e.res = None

\* C12: once the converter has written the PNG, _read_dds deletes it on every
\* exit (raster, None, exception), before the result or the error reaches the
\* loop and so before the temporary directory of the call is removed.
Produced(e) ==
    /\ e.name = "texconv-dds"
    /\ e.calls # <<>>
    /\ ~(e.res.tag = "raise" /\ e.res.type = "TexconvError")

DdsNotApplicable(c) ==
    /\ Len(trace[c]) >= 3
    /\ ~(get_ext(path[c]) = DdsExt /\ isWindows)

C13_EndsWithNextDecoderOrUnreadable ==
    \A c \in Calls :
        DdsNotApplicable(c)
            => /\ trace[c][3].res = None
               /\ trace[c][3].calls = <<>>
               /\ Done(c)
                     => /\ Len(trace[c]) = 4
                        /\ \/ /\ pc[c] = "returned"
                              /\ outcome[c].value[1] = trace[c][4].res
                           \/ /\ pc[c] = "raised"
                              /\ outcome[c] = trace[c][4].res
                           \/ outcome[c] = Raise("Unreadable", path[c])

\* C13: as above, and when the next decoder is not applicable either the load
\* ends with the error recorded from an earlier decoder, if there is one, and
\* with the unreadable-image error otherwise; never with an error caused by
\* the platform check.
C13_DdsNotApplicableIsSilent ==
    \A c \in Calls :
        DdsNotApplicable(c)
            => /\ trace[c][3].res = None
               /\ trace[c][3].calls = <<>>
               /\ pc[c] # "decode" => Len(trace[c]) = 4
               /\ Done(c)
                     => /\ Len(trace[c]) = 4
                        /\ \/ /\ pc[c] = "returned"
                              /\ outcome[c].value[1] = trace[c][4].res
                           \/ /\ pc[c] = "raised"
                              /\ outcome[c] = trace[c][4].res
                           \/ /\ trace[c][4].res = None
                              /\ Failures(trace[c]) # {}
                              /\ Last(Failures(trace[c])) < 3
                              /\ outcome[c] = trace[c][Last(Failures(trace[c]))].res
                           \/ /\ Failures(trace[c]) = {}
                              /\ outcome[c] = Raise("Unreadable", path[c])

C13_Witness ==
    \E c \in Calls :
        /\ pc[c] = "raised"
        /\ ~isWindows
        /\ get_ext(path[c]) = DdsExt
        /\ Len(trace[c]) = 4
        /\ trace[c][2].res.tag = "raise"
        /\ trace[c][4].res = None
        /\ outcome[c] = trace[c][2].res

\* C14 as stated: for an extension supported by decoder 1 and by decoder 2 or
\* 4, the raster returned by the chain is the one produced by decoder 1.
BothSupport(c) ==
    /\ Supports("pil-jpeg", get_ext(path[c]))
    /\ Supports("cv", get_ext(path[c])) \/ Supports("pil", get_ext(path[c]))

C15_ChannelOrder ==
    \A c \in Calls :
        \A i \in Successes(trace[c]) :
            LET r == trace[c][i].res
            IN /\ r.c = 3 => r.order = "BGR"
               /\ r.c = 4 => r.order = "BGRA"
               /\ (r.lib = "PIL" /\ r.c \notin {3, 4}) => r.order = PilMode(r.c)
               /\ r.lib # "PIL" => r.order = CvOrder(r.c)
               /\ pc[c] = "returned" => outcome[c].value[1] = r

C15_Witness ==
    \E c \in Calls :
        /\ pc[c] = "returned"
        /\ outcome[c].value[1].lib = "PIL"
        /\ outcome[c].value[1].c = 4
        /\ outcome[c].value[1].order = "BGRA"

\* C16 as stated: two successive calls with the same inputs against an
\* unchanged file system and archive give the same outcome, the identical
\* raster and tuple or the same error.
C16_SameOutcome ==
    \A c \in Calls :
        (Done(c) /\ round[c] >= 2) => outcome[c] = prev[c]

\* C16: the two calls give the identical raster and tuple, or an error of the
\* same kind about the same file; in archive mode the path named by the error
\* lies in the temporary directory of the call and differs between the calls
\* in that directory's name only; in direct mode the errors are identical.
C16_SameOutcomeUpToTempName ==
    \A c \in Calls :
        (Done(c) /\ round[c] >= 2)
            => /\ outcome[c].tag = prev[c].tag
               /\ outcome[c].tag = "return" => outcome[c] = prev[c]
               /\ outcome[c].tag = "raise"
                     => /\ outcome[c].type = prev[c].type
                        /\ ContentOf(outcome[c].file) = ContentOf(prev[c].file)
               /\ ~compressed[c] => outcome[c] = prev[c]

C16_Witness ==
    \E c \in Calls :
        /\ pc[c] = "returned"
        /\ round[c] = 2
        /\ compressed[c]
        /\ outcome[c] = prev[c]

\* C17: in archive mode, once the entry has been staged, the temporary
\* directory exists during every decoder invocation and up to the end of the
\* loop, and it has been removed, once, before the tuple is returned and
\* before the recorded decoder error or the unreadable-image error is raised.
C17_ReleaseAfterLoopBeforeOutcome ==
    \A c \in Calls :
        compressed[c]
            => /\ (InLoop(c) \/ pc[c] = "release")
                     => /\ tempdir[c] \in dirs
                        /\ tempdir[c] \in staged
                        /\ removals[c] = 0
                        /\ outcome[c] = None
               /\ pc[c] = "finish"
                     => /\ tempdir[c] \notin dirs
                        /\ removals[c] = 1
                        /\ outcome[c] = None
               /\ (Done(c) /\ ChainRan(c))
                     => /\ tempdir[c] \notin dirs
                        /\ removals[c] = 1

C17_Witness ==
    \E c \in Calls :
        /\ pc[c] = "raised"
        /\ compressed[c]
        /\ Len(trace[c]) = 4
        /\ outcome[c].type = "RuntimeError"
        /\ removals[c] = 1
        /\ tempdir[c] \notin dirs

\* C18: on a supported extension _read_cv decodes from the byte buffer first;
\* it decodes from the path exactly when the buffer decode raised or gave no
\* image; it raises the RuntimeError naming the path exactly when neither
\* attempt gave an image, and otherwise returns the image of the first
\* attempt that gave one.
C18_BufferThenPath ==
    \A c \in Calls :
        \A i \in 1..Len(trace[c]) :
            (trace[c][i].name = "cv" /\ get_ext(path[c]) \in opencv_formats)
                => LET e == trace[c][i]
                       b == CvBuf(Readable(c))
                       q == CvByPath(Readable(c))
                   IN /\ e.calls # <<>>
                      /\ e.calls[1] = "imdecode"
                      /\ (Len(e.calls) = 2) <=> (b \in {"raise", "none"})
                      /\ Len(e.calls) = 2 => e.calls[2] = "imread"
                      /\ (e.res.tag = "raise") <=> (b # "img" /\ q # "img")
                      /\ e.res.tag = "raise" => e.res = Raise("RuntimeError", path[c])
                      /\ b = "img" => (e.res.tag = "raster" /\ e.res.lib = "cv2.imdecode")
                      /\ (b # "img" /\ q = "img")
                            => (e.res.tag = "raster" /\ e.res.lib = "cv2.imread")

C18_Witness ==
    \E c \in Calls :
        /\ Len(trace[c]) >= 2
        /\ trace[c][2].name = "cv"
        /\ cvDecode = <<"raise", "img">>
        /\ trace[c][2].calls = <<"imdecode", "imread">>
        /\ trace[c][2].res.tag = "raster"
        /\ trace[c][2].res.lib = "cv2.imread"

\* C19: in every call the working path handed to the decoders ends with
\* ".dds", in archive and in direct mode; pil-jpeg is therefore never
\* applicable and never calls _read_pil, and a returned raster comes from cv,
\* texconv-dds or pil.
C19_WorkingPathIsDds ==
    \A c \in Calls :
        /\ (InLoop(c) \/ ChainRan(c))
              => /\ EndsWith(path[c], DdsExt)
                 /\ get_ext(path[c]) = DdsExt
        /\ \A i \in 1..Len(trace[c]) :
              trace[c][i].name = "pil-jpeg"
                  => (trace[c][i].res = None /\ trace[c][i].calls = <<>>)
        /\ pc[c] = "returned"
              => \E i \in 2..Len(trace[c]) :
                    /\ trace[c][i].name \in {"cv", "texconv-dds", "pil"}
                    /\ trace[c][i].res = outcome[c].value[1]

C19_Witness ==
    \E c \in Calls :
        /\ pc[c] = "returned"
        /\ compressed[c]
        /\ DdsExt \in pil_formats
        /\ trace[c][1].name = "pil-jpeg"
        /\ trace[c][1].res = None
        /\ Len(trace[c]) = 4
        /\ outcome[c].value[1].lib = "PIL"

====
